---- MODULE Spec2Model ----
(***************************************************************************)
(* Verification model of secure-chat: the framed connection, the session   *)
(* layer, the handshake and the threads of the chat server.                *)
(*                                                                         *)
(* Data representation.  A byte is an integer 0..255 and a byte string is  *)
(* a sequence of bytes.  The AES block function is not evaluated here: a   *)
(* 16-byte ciphertext block is the term <<0, key, x>> for "x encrypted     *)
(* under key", and the XOR of a chaining block v with a plaintext block p  *)
(* is the term <<1, v, p>>.  A ciphertext is the sequence of its blocks,   *)
(* so its length in bytes is 16 times the length of the sequence.  A byte  *)
(* that decryption cannot recover is the value GARBLED.                    *)
(***************************************************************************)
EXTENDS Integers, Sequences, FiniteSets, TLC

\* ---------------------------------------------------------------- bounds
MaxConns == 2          \* TCP connections the listening socket hands out
MaxSends == 2          \* Connection.send calls on the connection seen by bytes
MaxFragments == 2      \* deliveries that split the bytes under way
MaxInputs == 2         \* lines typed by the clients and the operator,
                       \* and clients that leave, in one run
MaxCalls == 3          \* encrypt calls on one Key object used on its own
MaxRsaLen == 2         \* length of the short RSA plaintexts
MaxFermatN == 13       \* largest number handed to is_prime on its own
MaxTrials == 2         \* largest k handed to is_prime on its own

\* ------------------------------------------------------ program constants
HASH_SIZE == 32
AesKeySize == 256
RsaKeySize == 1024
MaxNameLen == 32
PublicExponent == 65537

GARBLED == 255 + 1      \* not a byte value
GarbledBlock == [i \in 1..16 |-> GARBLED]
\* an unrecoverable block whose last byte is g
GarbledEnding(g) == [i \in 1..16 |-> IF i = 16 THEN g ELSE GARBLED]

\* ------------------------------------------------------- python helpers
Min(a, b) == IF a < b THEN a ELSE b

\* s[:-n] for n >= 0 (s[:-0] is s[:0], the empty string)
DropLast(s, n) == IF n = 0 \/ n >= Len(s) THEN <<>> ELSE SubSeq(s, 1, Len(s) - n)
\* s[-n:] for n > 0
TakeLast(s, n) == IF n >= Len(s) THEN s ELSE SubSeq(s, Len(s) - n + 1, Len(s))

RECURSIVE IntFromBytes(_)
\* int.from_bytes(data, "big")
IntFromBytes(data) ==
    IF data = <<>> THEN 0
    ELSE 256 * IntFromBytes(SubSeq(data, 1, Len(data) - 1)) + data[Len(data)]

RECURSIVE IntToMinBytes(_)
\* n.to_bytes((n.bit_length() + 7) // 8, "big")
IntToMinBytes(n) ==
    IF n = 0 THEN <<>> ELSE Append(IntToMinBytes(n \div 256), n % 256)

\* n.to_bytes(4, "big")
IntTo4Bytes(n) ==
    << (n \div 16777216) % 256, (n \div 65536) % 256, (n \div 256) % 256, n % 256 >>

RECURSIVE StripZeros(_)
\* the bytes of int.from_bytes(data, "big") written back with minimal length
StripZeros(data) ==
    IF data = <<>> THEN <<>>
    ELSE IF data[1] = 0 THEN StripZeros(Tail(data)) ELSE data

\* ----------------------------------------------------------- crypto.sha
RECURSIVE DigestSums(_, _, _, _)
DigestSums(data, i, a, b) ==
    IF i > Len(data) THEN <<a, b>>
    ELSE LET a2 == (a + data[i]) % 65521
         IN DigestSums(data, i + 1, a2, (b + a2) % 65521)

\* SHA256.hash: hashlib.sha256 is a library call; it is represented by a
\* 32-byte digest built from two running sums over every input byte.
SHA256_hash(data) ==
    LET s == DigestSums(data, 1, 1, 0)
        w == << s[1] \div 256, s[1] % 256, s[2] \div 256, s[2] % 256 >>
    IN [i \in 1..HASH_SIZE |-> w[((i - 1) % 4) + 1]]

\* ------------------------------------------------ crypto.aes.galois_field
RECURSIVE BitXor(_, _)
\* x ^ y
BitXor(x, y) ==
    IF x = 0 THEN y
    ELSE IF y = 0 THEN x
    ELSE 2 * BitXor(x \div 2, y \div 2) + ((x + y) % 2)

RECURSIVE bit_length(_)
\* int.bit_length()
bit_length(n) == IF n = 0 THEN 0 ELSE 1 + bit_length(n \div 2)

\* GaloisField().modulus
GF_modulus == 283

RECURSIVE GF_multiply_loop(_, _, _, _)
\* the while loop of GaloisField.multiply
GF_multiply_loop(a, b, c, bit_mask) ==
    IF b = 0 THEN c
    ELSE LET c2 == IF b % 2 = 1 THEN BitXor(c, a) ELSE c
             a2 == 2 * a
             a3 == IF (a2 \div bit_mask) % 2 = 1
                   THEN BitXor(a2, GF_modulus) ELSE a2
         IN GF_multiply_loop(a3, b \div 2, c2, bit_mask)

\* a multiply that never brings a back into the field
GF_multiply_Unreduced(a, b) ==
    GF_multiply_loop(a, b, 0, 2 ^ 30)

\* GF.multiply(a, b)
GF_multiply(a, b) ==
    GF_multiply_loop(a, b, 0, 2 ^ (bit_length(GF_modulus) - 1))

\* GF.transform(vector, matrix): entry row of the product of the square
\* matrix, kept row by row, with the vector
RECURSIVE GF_transform_row(_, _, _, _)
GF_transform_row(vector, matrix, row, col) ==
    IF col = Len(vector) THEN 0
    ELSE BitXor(GF_multiply(vector[col + 1], matrix[row * Len(vector) + col + 1]),
                GF_transform_row(vector, matrix, row, col + 1))

\* the transforms of this program are of 4-byte vectors
GF_transform(vector, matrix) ==
    <<GF_transform_row(vector, matrix, 0, 0), GF_transform_row(vector, matrix, 1, 0),
      GF_transform_row(vector, matrix, 2, 0), GF_transform_row(vector, matrix, 3, 0)>>

\* ------------------------------------------------------ crypto.aes.block
\* crypto/aes/constants.py: the S-Box of AES and its inverse, indexed from
\* 1, and the MixColumns matrix and its inverse, row by row
AES_SBOX ==
  <<
    99, 124, 119, 123, 242, 107, 111, 197, 48, 1, 103, 43, 254, 215, 171, 118,
    202, 130, 201, 125, 250, 89, 71, 240, 173, 212, 162, 175, 156, 164, 114, 192,
    183, 253, 147, 38, 54, 63, 247, 204, 52, 165, 229, 241, 113, 216, 49, 21,
    4, 199, 35, 195, 24, 150, 5, 154, 7, 18, 128, 226, 235, 39, 178, 117,
    9, 131, 44, 26, 27, 110, 90, 160, 82, 59, 214, 179, 41, 227, 47, 132,
    83, 209, 0, 237, 32, 252, 177, 91, 106, 203, 190, 57, 74, 76, 88, 207,
    208, 239, 170, 251, 67, 77, 51, 133, 69, 249, 2, 127, 80, 60, 159, 168,
    81, 163, 64, 143, 146, 157, 56, 245, 188, 182, 218, 33, 16, 255, 243, 210,
    205, 12, 19, 236, 95, 151, 68, 23, 196, 167, 126, 61, 100, 93, 25, 115,
    96, 129, 79, 220, 34, 42, 144, 136, 70, 238, 184, 20, 222, 94, 11, 219,
    224, 50, 58, 10, 73, 6, 36, 92, 194, 211, 172, 98, 145, 149, 228, 121,
    231, 200, 55, 109, 141, 213, 78, 169, 108, 86, 244, 234, 101, 122, 174, 8,
    186, 120, 37, 46, 28, 166, 180, 198, 232, 221, 116, 31, 75, 189, 139, 138,
    112, 62, 181, 102, 72, 3, 246, 14, 97, 53, 87, 185, 134, 193, 29, 158,
    225, 248, 152, 17, 105, 217, 142, 148, 155, 30, 135, 233, 206, 85, 40, 223,
    140, 161, 137, 13, 191, 230, 66, 104, 65, 153, 45, 15, 176, 84, 187, 22
  >>

AES_SBOX_INVERSE ==
  <<
    82, 9, 106, 213, 48, 54, 165, 56, 191, 64, 163, 158, 129, 243, 215, 251,
    124, 227, 57, 130, 155, 47, 255, 135, 52, 142, 67, 68, 196, 222, 233, 203,
    84, 123, 148, 50, 166, 194, 35, 61, 238, 76, 149, 11, 66, 250, 195, 78,
    8, 46, 161, 102, 40, 217, 36, 178, 118, 91, 162, 73, 109, 139, 209, 37,
    114, 248, 246, 100, 134, 104, 152, 22, 212, 164, 92, 204, 93, 101, 182, 146,
    108, 112, 72, 80, 253, 237, 185, 218, 94, 21, 70, 87, 167, 141, 157, 132,
    144, 216, 171, 0, 140, 188, 211, 10, 247, 228, 88, 5, 184, 179, 69, 6,
    208, 44, 30, 143, 202, 63, 15, 2, 193, 175, 189, 3, 1, 19, 138, 107,
    58, 145, 17, 65, 79, 103, 220, 234, 151, 242, 207, 206, 240, 180, 230, 115,
    150, 172, 116, 34, 231, 173, 53, 133, 226, 249, 55, 232, 28, 117, 223, 110,
    71, 241, 26, 113, 29, 41, 197, 137, 111, 183, 98, 14, 170, 24, 190, 27,
    252, 86, 62, 75, 198, 210, 121, 32, 154, 219, 192, 254, 120, 205, 90, 244,
    31, 221, 168, 51, 136, 7, 199, 49, 177, 18, 16, 89, 39, 128, 236, 95,
    96, 81, 127, 169, 25, 181, 74, 13, 45, 229, 122, 159, 147, 201, 156, 239,
    160, 224, 59, 77, 174, 42, 245, 176, 200, 235, 187, 60, 131, 83, 153, 97,
    23, 43, 4, 126, 186, 119, 214, 38, 225, 105, 20, 99, 85, 33, 12, 125
  >>

AES_MIXING_MATRIX == <<2, 3, 1, 1,  1, 2, 3, 1,  1, 1, 2, 3,  3, 1, 1, 2>>
AES_MIXING_MATRIX_INVERSE ==
    <<14, 11, 13, 9,  9, 14, 11, 13,  13, 9, 14, 11,  11, 13, 9, 14>>

\* a block written out byte by byte: for idx in range(16)
Block16(F(_)) ==
    <<F(1), F(2), F(3), F(4), F(5), F(6), F(7), F(8),
      F(9), F(10), F(11), F(12), F(13), F(14), F(15), F(16)>>
\* a word written out byte by byte: for idx in range(4)
Word4(F(_)) == <<F(1), F(2), F(3), F(4)>>

sub_bytes(state) ==
    LET F(i) == AES_SBOX[state[i] + 1] IN Block16(F)
sub_bytes_inverse(state) ==
    LET F(i) == AES_SBOX_INVERSE[state[i] + 1] IN Block16(F)

\* shift_rows: state[i] becomes the former state[ShiftRowsFrom[i]], the
\* indices counted from 0 as in the source
ShiftRowsFrom == <<0, 5, 10, 15, 4, 9, 14, 3, 8, 13, 2, 7, 12, 1, 6, 11>>
shift_rows(state) ==
    LET F(i) == state[ShiftRowsFrom[i] + 1] IN Block16(F)

\* a shift to the right that moves the fourth row as the second
shift_rows_inverse_SameShift(state) ==
    LET F(i) == state[<<0, 13, 10, 15, 4, 1, 14, 3,
                        8, 5, 2, 7, 12, 9, 6, 11>>[i] + 1]
    IN Block16(F)

ShiftRowsInverseFrom == <<0, 13, 10, 7, 4, 1, 14, 11, 8, 5, 2, 15, 12, 9, 6, 3>>
shift_rows_inverse(state) ==
    LET F(i) == state[ShiftRowsInverseFrom[i] + 1] IN Block16(F)

\* mix_columns with the matrix given: GF.transform on each column
MixWith(state, matrix) ==
    GF_transform(SubSeq(state, 1, 4), matrix)
    \o GF_transform(SubSeq(state, 5, 8), matrix)
    \o GF_transform(SubSeq(state, 9, 12), matrix)
    \o GF_transform(SubSeq(state, 13, 16), matrix)

mix_columns(state) == MixWith(state, AES_MIXING_MATRIX)
mix_columns_inverse(state) == MixWith(state, AES_MIXING_MATRIX_INVERSE)

add_round_key(state, key) ==
    LET F(i) == BitXor(state[i], key[i]) IN Block16(F)

sub_word(word) ==
    LET F(i) == AES_SBOX[word[i] + 1] IN Word4(F)
rot_word(word) == <<word[2], word[3], word[4], word[1]>>
xor_word(word1, word2) ==
    LET F(i) == BitXor(word1[i], word2[i]) IN Word4(F)
\* get_word(state, index)
get_word(state, index) == SubSeq(state, index * 4 + 1, index * 4 + 4)

\* expand_key, lines 207-223: word i of the schedule, from the words before it
expand_word(key, schedule, i, rc) ==
    LET key_length == Len(key) \div 4
        prev == get_word(schedule, i - 1)
        back == get_word(schedule, i - key_length)
    IN IF i < key_length THEN get_word(key, i)
       ELSE IF i % key_length = 0
       THEN LET w == xor_word(sub_word(rot_word(prev)), back)
            IN <<BitXor(w[1], rc), w[2], w[3], w[4]>>
       ELSE IF key_length > 6 /\ i % key_length = 4
       THEN xor_word(sub_word(prev), back)
       ELSE xor_word(prev, back)

\* expand_key, line 216: rc after word i
expand_rc(key, i, rc) ==
    LET key_length == Len(key) \div 4
    IN IF i >= key_length /\ i % key_length = 0 THEN GF_multiply(rc, 2) ELSE rc

\* expand_key, line 225: the round keys 0..rounds, at indices 1..rounds+1
round_keys_of(schedule, rounds) ==
    [i \in 1..(rounds + 1) |-> SubSeq(schedule, (i - 1) * 16 + 1, i * 16)]

\* encrypt_block, lines 242-245: one pass of the for loop
encrypt_round(block, round_key) ==
    add_round_key(mix_columns(shift_rows(sub_bytes(block))), round_key)

\* encrypt_block, lines 247-249: the last round
encrypt_last_round(block, round_key) ==
    add_round_key(shift_rows(sub_bytes(block)), round_key)

\* decrypt_block, lines 265-267: the first round, round_keys reversed
decrypt_first_round(block, round_key) ==
    sub_bytes_inverse(shift_rows_inverse(add_round_key(block, round_key)))

\* decrypt_block, lines 270-273: one pass of the for loop
decrypt_round(block, round_key) ==
    sub_bytes_inverse(shift_rows_inverse(mix_columns_inverse(
        add_round_key(block, round_key))))

\* round_keys.reverse()
Reversed(round_keys) ==
    [i \in 1..Len(round_keys) |-> round_keys[Len(round_keys) + 1 - i]]

\* ------------------------------------------------- crypto.aes (block, modes)
IsEnc(b) == Len(b) = 3 /\ b[1] = 0
IsXor(b) == Len(b) = 3 /\ b[1] = 1
\* a cipher block with one byte changed on the way; what it decrypts to is
\* unrelated to the plaintext, and g is the last byte of that
Changed(block, g) == <<3, block, g>>
IsChanged(b) == Len(b) = 3 /\ b[1] = 3

\* xor_block(a, b): a ^= b.  (v ^ p) ^ v is p; a chaining block XORed with
\* a plaintext block is a term; anything else is unrecoverable.
xor_block(a, b) ==
    IF IsXor(a) THEN (IF a[2] = b THEN a[3] ELSE GarbledBlock)
    ELSE IF Len(a) = 16 \/ IsEnc(a) THEN <<1, a, b>>
    ELSE IF Len(a) = 3 /\ a[1] = 2 /\ IsChanged(a[3]) THEN GarbledEnding(a[3][3])
    ELSE GarbledBlock

encrypt_block(key, block, rounds) == <<0, key, block>>

decrypt_block(key, block, rounds) ==
    IF IsEnc(block) /\ block[2] = key THEN block[3] ELSE <<2, key, block>>

RECURSIVE cbc_encrypt_loop(_, _, _, _, _, _)
cbc_encrypt_loop(message, i, block, cipher, key, rounds) ==
    IF i > Len(message) THEN <<cipher, block>>
    ELSE LET b == encrypt_block(key,
                      xor_block(block, SubSeq(message, i, i + 15)), rounds)
         IN cbc_encrypt_loop(message, i + 16, b, Append(cipher, b), key, rounds)

\* returns <<cipher, last chaining block>>
cbc_encrypt(message, iv, key, rounds) ==
    cbc_encrypt_loop(message, 1, iv, <<>>, key, rounds)

RECURSIVE cbc_decrypt_loop(_, _, _, _, _, _)
cbc_decrypt_loop(crypto, i, vector, message, key, rounds) ==
    IF i > Len(crypto) THEN <<message, vector>>
    ELSE LET block == xor_block(decrypt_block(key, crypto[i], rounds), vector)
         IN cbc_decrypt_loop(crypto, i + 1, crypto[i], message \o block,
                             key, rounds)

\* returns <<message, last input block>>
cbc_decrypt(crypto, iv, key, rounds) ==
    cbc_decrypt_loop(crypto, 1, iv, <<>>, key, rounds)

\* ------------------------------------------------------ crypto.aes.key.Key
RoundsFor(keylen) ==
    CASE keylen = 16 -> 10 [] keylen = 24 -> 12 [] keylen = 32 -> 14

Key_init(key, iv) == [key |-> key, iv |-> iv, rounds |-> RoundsFor(Len(key))]

\* the padded plaintext Key.encrypt hands to cbc_encrypt
Padded(message) ==
    LET padding_length == 16 - (Len(message) % 16)
    IN message \o [i \in 1..padding_length |-> padding_length]

\* Key.encrypt run on the iv it read: <<cipher, new iv>>
Key_encrypt_from(K, iv, message) ==
    cbc_encrypt(Padded(message), iv, K.key, K.rounds)

\* Key.encrypt that leaves self.iv as it was
Key_encrypt_KeepIv(K, message) ==
    [cipher |-> Key_encrypt_from(K, K.iv, message)[1], key |-> K]

\* Key.encrypt as one uninterrupted call: [cipher, key object afterwards]
Key_encrypt(K, message) ==
    LET r == Key_encrypt_from(K, K.iv, message)
    IN [cipher |-> r[1], key |-> [K EXCEPT !.iv = r[2]]]

\* Key.decrypt that leaves self.iv as it was
Key_decrypt_KeepIv(K, cipher) ==
    LET message == cbc_decrypt(cipher, K.iv, K.key, K.rounds)[1]
    IN [message |-> DropLast(message, message[Len(message)]), key |-> K]

\* Key.decrypt: [message, key object afterwards]
Key_decrypt(K, cipher) ==
    LET r == cbc_decrypt(cipher, K.iv, K.key, K.rounds)
        message == r[1]
        padding_length == message[Len(message)]
    IN [message |-> DropLast(message, padding_length),
        key |-> [K EXCEPT !.iv = r[2]]]

Key_to_bytes(K) == <<Len(K.key)>> \o K.key \o K.iv

Key_from_bytes(data) ==
    LET key_length == data[1]
    IN Key_init(SubSeq(data, 2, 1 + key_length),
                SubSeq(data, 2 + key_length, 1 + key_length + 16))

\* Key.generate(size): secrets.token_bytes draws are represented by the
\* value r, one fresh value per generated key
Key_generate(size, r) ==
    Key_init([i \in 1..(size \div 8) |-> r], [i \in 1..16 |-> r])

\* ------------------------------------------------------------ crypto.rsa
\* Moduli and RSA plaintexts are big-endian byte strings of their real
\* length; pow(m, e, n) is not evaluated: the ciphertext of m under (n, e)
\* is the term <<4, n, e, m>>, and d is the term <<5, e>>.

\* a >= b for big-endian byte strings without leading zeros
RECURSIVE LexGE(_, _, _)
LexGE(a, b, i) ==
    IF i > Len(a) THEN TRUE
    ELSE IF a[i] # b[i] THEN a[i] > b[i] ELSE LexGE(a, b, i + 1)

BigGE(a, b) ==
    IF Len(a) # Len(b) THEN Len(a) > Len(b) ELSE LexGE(a, b, 1)

\* generate_keys(bits, k): the pair whose modulus ends in byte r
generate_keys(bits, r) ==
    LET n == [i \in 1..(bits \div 8) |->
                 IF i = 1 THEN 128 ELSE IF i = bits \div 8 THEN r ELSE 0]
    IN [private |-> [n |-> n, d |-> <<5, PublicExponent>>],
        public |-> [n |-> n, e |-> PublicExponent]]

\* PublicKey.encrypt: [err, cipher]
PublicKey_encrypt(pub, message) ==
    LET m == StripZeros(message)
    IN IF BigGE(m, pub.n)
       THEN [err |-> "MessageTooLarge", cipher |-> <<>>]
       ELSE [err |-> "", cipher |-> <<4, pub.n, pub.e, m>>]

\* PrivateKey.decrypt
PrivateKey_decrypt(priv, cipher) ==
    IF Len(cipher) = 4 /\ cipher[1] = 4 /\ cipher[2] = priv.n
       /\ priv.d = <<5, cipher[3]>>
    THEN cipher[4]
    ELSE <<GARBLED>>

PublicKey_to_bytes(pub) == IntTo4Bytes(pub.e) \o pub.n

PublicKey_from_bytes(data) ==
    [n |-> StripZeros(SubSeq(data, 5, Len(data))),
     e |-> IntFromBytes(SubSeq(data, 1, 4))]

\* ------------------------------------------------------------------ text
\* str.encode() of the literals of protocol/server.py
ColonSpace == <<58, 32>>                                      \* ": "
HasJoined == <<32, 104, 97, 115, 32, 106, 111, 105, 110, 101, 100, 32,
               116, 104, 101, 32, 99, 104, 97, 116>>   \* " has joined the chat"
WelcomeTo == <<87, 101, 108, 99, 111, 109, 101, 32, 116, 111, 32, 116, 104,
               101, 32, 99, 104, 97, 116, 32, 34>>    \* 'Welcome to the chat "'
Quote == <<34>>                                               \* '"'

\* string.ascii_letters + string.digits + "_"
NameChars == (48..57) \cup (65..90) \cup (97..122) \cup {95}

\* Server.validate_name
validate_name(name) ==
    /\ 0 < Len(name) /\ Len(name) <= MaxNameLen
    /\ \A i \in 1..Len(name) : name[i] \in NameChars

\* ---------------------------------------------------------------- inputs
chatname == <<114, 111, 111, 109>>                            \* "room"
alice == <<97, 108, 105, 99, 101>>                            \* "alice"
bob_bang == <<98, 33>>                                        \* "b!"
\* the name each client process may be started with
UserNames(c) == IF c = 1 THEN {alice, chatname} ELSE {alice, bob_bang}
Lines == {<<104, 105>>, <<>>}                   \* "hi" and the empty line
\* the last byte of what a changed cipher block decrypts to can be any byte;
\* these are the ones taken
ChangedEndings == {14, 16}
OpLines == {<<121, 111>>}                                     \* "yo"

\* ----------------------------------------------------------------- state
Conns == 1..MaxConns

\* threads of the server process
ListenTask == 0                       \* Server.listen, running Server.accept
HandleTask(c) == c                    \* Server.handle of the client on c
BroadcastTask == MaxConns + 1         \* broadcast(server) of src/server.py
Tasks == 0..(MaxConns + 1)

\* Key objects live in a heap, so that two references to one object differ
\* from two objects with equal fields.  Slots of connection c:
SrvKey(c) == 6 * (c - 1) + 1          \* ConnectedClient.key
SrvRecv(c) == 6 * (c - 1) + 2         \* server Session.recv_key
SrvSend(c) == 6 * (c - 1) + 3         \* server Session.send_key
CliKey(c) == 6 * (c - 1) + 4          \* Client.conn_key
CliRecv(c) == 6 * (c - 1) + 5         \* client Session.recv_key
CliSend(c) == 6 * (c - 1) + 6         \* client Session.send_key
KeyRefs == 1..(6 * MaxConns)

NoKey == [key |-> <<>>, iv |-> <<>>, rounds |-> 0]
NoSession == [recv_key |-> 0, send_key |-> 0]
NoPublic == [n |-> <<>>, e |-> 0]

VARIABLES
    keys,       \* heap of Key objects: reference -> [key, iv, rounds]
    clients,    \* Server.clients, in insertion order: [username, conn, session, key]
    task,       \* server threads: program counter and locals
    up,         \* the server process is running
    cli,        \* client processes: program counter and fields of Client
    backlog,    \* connections established and not yet accepted
    s2c,        \* framed messages in flight, server to client, per connection
    c2s,        \* framed messages in flight, client to server, per connection
    closed,     \* closed[c]: [srv, cli] the socket of that end is closed
    wrote,      \* per connection: plaintexts in the order their ciphertexts
                \* were written to the server's socket
    got         \* per connection: what the client's Session.recv returned

pvars == <<keys, clients, task, up, cli, backlog, s2c, c2s, closed, wrote, got>>

\* one Connection seen at the level of its bytes: the tasks of one end send,
\* a task of the other end receives
VARIABLES
    wire,         \* bytes written to the socket and not yet arrived
    buf,          \* bytes arrived at the receiving socket and not yet read
    send_lock,    \* Connection.send_lock: 0, or the task that holds it
    snd,          \* sending tasks: position in Connection.send and locals
    sent,         \* <<task, data>> of the Connection.send calls, in the
                  \* order in which they took send_lock
    recv_lock,    \* Connection.recv_lock is held
    rcv,          \* receiving task: position in Connection.recv and locals
    received,     \* what the Connection.recv calls returned, in order
    peer_closed,  \* the sending end has closed its socket
    local_closed, \* the receiving end has closed its socket
    fragments     \* deliveries so far that split the bytes under way

fvars == <<wire, buf, send_lock, snd, sent, recv_lock, rcv, received,
           peer_closed, local_closed, fragments>>

\* crypto.aes.key.Key and crypto.rsa used on their own
VARIABLES
    ckeys,      \* heap of Key objects: reference -> [key, iv, rounds]
    refs,       \* [enc, dec, twin_enc, twin_dec]: the references held
    given,      \* the messages passed to encrypt of the object refs.enc
    outs,       \* what those encrypt calls returned
    back,       \* what decrypt of the object refs.dec returned for outs
    twin_outs,  \* what encrypt of refs.twin_enc returned for given
    twin_back,  \* what decrypt of refs.twin_dec returned for outs
    rsa         \* one key pair and one plaintext: [pc, pair, m, cipher, out]

cvars == <<ckeys, refs, given, outs, back, twin_outs, twin_back, rsa>>

\* crypto.aes.galois_field, crypto.aes.block, Key.decrypt on any plaintext
\* and is_prime used on their own
VARIABLES
    gf,         \* two operands of GF.multiply: [pc, a, b, ab, ba]
    aes,        \* one key and one block, and the locals of encrypt_block
                \* and decrypt_block
    pad,        \* one padded plaintext: [pc, plain, cipher, out]
    fermat      \* one call of is_prime: [pc, n, k, draws, result]

mvars == <<gf, aes, pad, fermat>>

vars == <<pvars, fvars, cvars, mvars>>

ServerKeys == generate_keys(RsaKeySize, 1)
ClientKeys(c) == generate_keys(RsaKeySize, 1 + 2 * c)

\* a copy() that returns self
Key_copy_Alias(heap, self, new) == [ref |-> self, heap |-> heap]

\* Key.copy: a new object at reference new with the fields of self;
\* [ref, heap]
Key_copy(heap, self, new) ==
    [ref |-> new,
     heap |-> [heap EXCEPT ![new] = Key_init(heap[self].key, heap[self].iv)]]

\* Session.__init__ that makes one copy of key and uses it for both
\* directions
Session_init_Shared(heap, key, r, s) ==
    LET a == Key_copy(heap, key, r)
    IN [session |-> [recv_key |-> a.ref, send_key |-> a.ref], heap |-> a.heap]

\* Session.__init__(conn, key): [session, heap]
Session_init(heap, key, r, s) ==
    LET a == Key_copy(heap, key, r)
        b == Key_copy(a.heap, key, s)
    IN [session |-> [recv_key |-> a.ref, send_key |-> b.ref], heap |-> b.heap]

\* Session.send up to the read of send_key.iv: the plaintext handed to
\* Key.encrypt
Session_data(message) == message \o SHA256_hash(message)

\* Session.recv after conn.recv(): [err, message, heap]
Session_recv(heap, session, crypto) ==
    LET r == Key_decrypt(heap[session.recv_key], crypto)
        data == r.message
        message == DropLast(data, HASH_SIZE)
        hash_ == TakeLast(data, HASH_SIZE)
    IN [err |-> IF hash_ # SHA256_hash(message) THEN "HashMismatch" ELSE "",
        message |-> message,
        heap |-> [heap EXCEPT ![session.recv_key] = r.key]]

IdleTask ==
    [pc |-> "off", conn |-> 0, client_public |-> NoPublic,
     username |-> <<>>, key |-> 0,
     session |-> NoSession, it_size |-> 0, it_pos |-> 0, message |-> <<>>,
     to |-> 0, dst |-> NoSession, iv |-> <<>>, crypto |-> <<>>,
     phase |-> "", err |-> "", lines |-> 0]

IdleClient ==
    [pc |-> "init", username |-> <<>>, conn_key |-> 0, session |-> NoSession,
     sent |-> 0, rd |-> "off", err |-> ""]

SendTasks == {1, 2}

IdleSender ==
    [pc |-> "idle", data |-> <<>>, offset |-> 0, chunk |-> <<>>,
     is_last |-> FALSE, err |-> ""]

IdleReceiver ==
    [pc |-> "idle", data |-> <<>>, chunk |-> <<>>, length |-> 0,
     is_last |-> FALSE, eof_seen |-> FALSE, err |-> ""]

\* Connection.__init__ on both ends of a fresh TCP connection
StreamInit ==
    /\ wire = <<>> /\ buf = <<>>
    /\ send_lock = 0 /\ recv_lock = FALSE
    /\ snd = [s \in SendTasks |-> IdleSender]
    /\ rcv = IdleReceiver
    /\ sent = <<>> /\ received = <<>>
    /\ peer_closed = FALSE /\ local_closed = FALSE
    /\ fragments = 0

\* references of the Key objects used on their own
CryptoRefs == 1..4
NoPair == [private |-> [n |-> <<>>, d |-> <<>>], public |-> NoPublic]
IdleRsa == [pc |-> "off", pair |-> NoPair, m |-> <<>>, cipher |-> <<>>, out |-> <<>>]

\* no Key object and no key pair is used on its own
CbcIdle ==
    /\ ckeys = [r \in CryptoRefs |-> NoKey]
    /\ refs = [enc |-> 0, dec |-> 0, twin_enc |-> 0, twin_dec |-> 0]
    /\ given = <<>> /\ outs = <<>> /\ back = <<>>
    /\ twin_outs = <<>> /\ twin_back = <<>>

RsaIdle == rsa = IdleRsa

IdleGf == [pc |-> "off", a |-> 0, b |-> 0, ab |-> 0, ba |-> 0]
IdleAes == [pc |-> "off", key |-> <<>>, rounds |-> 0, block |-> <<>>,
            call |-> "", schedule |-> <<>>, rc |-> 0,
            round_keys |-> <<>>, state |-> <<>>, i |-> 0,
            cipher |-> <<>>, out |-> <<>>]
IdlePad == [pc |-> "off", key |-> NoKey, plain |-> <<>>, cipher |-> <<>>, out |-> <<>>]
IdleFermat == [pc |-> "off", n |-> 0, k |-> 0, draws |-> <<>>, result |-> FALSE]

GfIdle == gf = IdleGf
AesIdle == aes = IdleAes
PadIdle == pad = IdlePad
FermatIdle == fermat = IdleFermat

ProgramInit ==
    /\ keys = [r \in KeyRefs |-> NoKey]
    /\ clients = <<>>
    /\ task = [t \in Tasks |->
                 IF t = ListenTask THEN [IdleTask EXCEPT !.pc = "accept"]
                 ELSE IF t = BroadcastTask THEN [IdleTask EXCEPT !.pc = "input"]
                 ELSE IdleTask]
    /\ up = TRUE
    /\ cli = [c \in Conns |-> IdleClient]
    /\ backlog = <<>>
    /\ s2c = [c \in Conns |-> <<>>]
    /\ c2s = [c \in Conns |-> <<>>]
    /\ closed = [c \in Conns |-> [srv |-> FALSE, cli |-> FALSE]]
    /\ wrote = [c \in Conns |-> <<>>]
    /\ got = [c \in Conns |-> <<>>]
    /\ StreamInit

Init ==
    ProgramInit /\ CbcIdle /\ RsaIdle /\ GfIdle /\ AesIdle /\ PadIdle /\ FermatIdle

RECURSIVE SumSent(_)
SumSent(c) == IF c = 0 THEN 0 ELSE cli[c].sent + SumSent(c - 1)

\* inputs so far: lines typed and clients that left
Inputs == SumSent(MaxConns) + task[BroadcastTask].lines
          + Cardinality({c \in Conns : closed[c].cli})

\* --------------------------------------------------- threads of the server
\* an exception e leaves the thread
Dead(k, e) == [k EXCEPT !.pc = "dead", !.err = e]

\* thread t goes on as k2.  An exception in the main thread (the operator's
\* broadcast loop) reaches main()'s finally: server.close(), and the
\* process, whose other threads are daemons, ends.
Becomes(t, k2) ==
    /\ task' = [task EXCEPT ![t] = k2]
    /\ up' = (up /\ ~(t = BroadcastTask /\ k2.pc = "dead"))
    /\ closed' = IF t = BroadcastTask /\ k2.pc = "dead"
                 THEN [c \in Conns |-> [closed[c] EXCEPT !.srv = TRUE]]
                 ELSE closed

\* Session.send, lines 37-39, up to the point where Key.encrypt has read
\* self.iv
BeginSend(k, message, to, dst, heap) ==
    [k EXCEPT !.pc = "cbc", !.message = message, !.to = to, !.dst = dst,
              !.iv = heap[dst.send_key].iv]

\* what follows the for loop over self.clients.values(): in Server.accept
\* (line 158) the Welcome message is sent on the new session, Server.handle
\* (line 194) goes back to Session.recv, broadcast() of src/server.py goes
\* back to input()
LoopEnd(t, k, heap) ==
    IF t = ListenTask
    THEN BeginSend([k EXCEPT !.phase = "welcome"],
                   WelcomeTo \o chatname \o Quote, k.conn, k.session, heap)
    ELSE IF t = BroadcastTask
    THEN [k EXCEPT !.pc = "input"]
    ELSE [k EXCEPT !.pc = "recv"]

RECURSIVE Advance(_, _, _, _)
\* the for loops of Server.broadcast (lines 183-184) and Server.handle
\* (lines 195-199) from next() on: next() raises RuntimeError when the dict
\* changed size since the iterator was made, the loop ends, the sender's own
\* entry is skipped, or Session.send starts on the next client's session
Advance(t, k, cl, heap) ==
    IF k.it_size # Len(cl) THEN Dead(k, "RuntimeError")
    ELSE IF k.it_pos = Len(cl) THEN LoopEnd(t, k, heap)
    ELSE LET other == cl[k.it_pos + 1]
             k1 == [k EXCEPT !.it_pos = @ + 1]
         IN IF t \in Conns /\ other.username = k.username
            THEN Advance(t, k1, cl, heap)
            ELSE BeginSend(k1, k.message, other.conn, other.session, heap)

\* a loop that visits no client
StartLoop_Nobody(t, k, message, cl, heap) ==
    LoopEnd(t, [k EXCEPT !.message = message, !.it_size = Len(cl),
                         !.it_pos = Len(cl)], heap)

\* iter(self.clients.values()) followed by the loop
StartLoop(t, k, message, cl, heap) ==
    Advance(t, [k EXCEPT !.message = message, !.it_size = Len(cl),
                         !.it_pos = 0], cl, heap)

\* Server.accept, lines 136-140: sock.accept(), Connection(conn) and the
\* send of the server's public key
AcceptConn ==
    /\ up /\ task[ListenTask].pc = "accept" /\ backlog # <<>>
    /\ LET c == Head(backlog)
       IN /\ backlog' = Tail(backlog)
          /\ s2c' = [s2c EXCEPT ![c] =
                        Append(@, PublicKey_to_bytes(ServerKeys.public))]
          /\ task' = [task EXCEPT ![ListenTask] =
                        [IdleTask EXCEPT !.pc = "hello", !.conn = c]]
    /\ UNCHANGED <<mvars, cvars, fvars, keys, clients, up, cli, c2s, closed, wrote, got>>

\* the test of line 145 without its second half
Rejected_ChatnameOnly(username, cl) == username = chatname

\* the test of Server.accept, line 145
Rejected(username, cl) ==
    username = chatname \/ \E i \in 1..Len(cl) : cl[i].username = username

\* Server.accept, lines 141-157: the client's public key and its username
\* are received.  Either the username is refused and the connection closed,
\* or the session key is generated and sent, the session is built and
\* self.broadcast(...) starts.
AcceptHello ==
    LET t == task[ListenTask]
        c == t.conn
        client_public == PublicKey_from_bytes(c2s[c][1])
        username == PrivateKey_decrypt(ServerKeys.private, c2s[c][2])
        key == Key_generate(AesKeySize, c)
        key_cipher == PublicKey_encrypt(client_public, Key_to_bytes(key))
        s == Session_init([keys EXCEPT ![SrvKey(c)] = key], SrvKey(c),
                          SrvRecv(c), SrvSend(c))
        k == [t EXCEPT !.phase = "join", !.client_public = client_public,
                       !.username = username, !.key = SrvKey(c),
                       !.session = s.session]
    IN /\ up /\ t.pc = "hello" /\ Len(c2s[c]) >= 2
       /\ c2s' = [c2s EXCEPT ![c] = Tail(Tail(@))]
       /\ IF Rejected(username, clients)
          THEN /\ closed' = [closed EXCEPT ![c].srv = TRUE]
               /\ task' = [task EXCEPT ![ListenTask] =
                             [IdleTask EXCEPT !.pc = "accept"]]
               /\ UNCHANGED <<keys, s2c, up>>
          ELSE IF key_cipher.err # ""
          THEN /\ Becomes(ListenTask, Dead(t, key_cipher.err))
               /\ UNCHANGED <<keys, s2c>>
          ELSE \/ \* conn.send(key_cipher) raises: the peer is gone
                  /\ closed[c].cli
                  /\ Becomes(ListenTask, Dead(t, "OSError"))
                  /\ UNCHANGED <<keys, s2c>>
               \/ /\ s2c' = IF closed[c].cli THEN s2c
                            ELSE [s2c EXCEPT ![c] = Append(@, key_cipher.cipher)]
                  /\ keys' = s.heap
                  /\ Becomes(ListenTask,
                        StartLoop(ListenTask, k,
                                  chatname \o ColonSpace \o username \o HasJoined,
                                  clients, s.heap))
       /\ UNCHANGED <<mvars, cvars, fvars, clients, cli, backlog, wrote, got>>

\* Server.accept, lines 141-144, blocked in Connection.recv on a stream the
\* client has closed: socket reads return b"" and the loops never end
AcceptEof ==
    LET c == task[ListenTask].conn
    IN /\ up /\ task[ListenTask].pc = "hello"
       /\ Len(c2s[c]) < 2 /\ closed[c].cli
       /\ task' = [task EXCEPT ![ListenTask].pc = "spin"]
       /\ UNCHANGED <<mvars, cvars, fvars, keys, clients, up, cli, backlog, s2c, c2s, closed,
                      wrote, got>>

\* Key.encrypt, line 58: cbc_encrypt returns and self.iv is assigned
SendCbc(t) ==
    LET k == task[t]
        ref == k.dst.send_key
        r == Key_encrypt_from(keys[ref], k.iv, Session_data(k.message))
    IN /\ up /\ k.pc = "cbc"
       /\ keys' = [keys EXCEPT ![ref].iv = r[2]]
       /\ task' = [task EXCEPT ![t].pc = "write", ![t].crypto = r[1]]
       /\ UNCHANGED <<mvars, cvars, fvars, clients, up, cli, backlog, s2c, c2s, closed, wrote, got>>

\* Session.send, line 40: Connection.send writes the ciphertext; the thread
\* goes on to what follows the call
SendWrite(t) ==
    LET k == task[t]
        k1 == [k EXCEPT !.crypto = <<>>, !.iv = <<>>]
    IN /\ up /\ k.pc = "write" /\ ~closed[k.to].srv
       /\ s2c' = IF closed[k.to].cli
                 THEN s2c                 \* the peer is gone: bytes are lost
                 ELSE [s2c EXCEPT ![k.to] = Append(@, k.crypto)]
       /\ wrote' = [wrote EXCEPT ![k.to] = Append(@, k.message)]
       /\ IF t = ListenTask /\ k.phase = "welcome"
          THEN Becomes(t, [k1 EXCEPT !.pc = "insert"])
          ELSE Becomes(t, Advance(t, k1, clients, keys))
       /\ UNCHANGED <<mvars, cvars, fvars, keys, clients, cli, backlog, c2s, got>>

\* Session.send, line 40: the socket write raises (closed socket, peer gone)
SendFail(t) ==
    LET k == task[t]
    IN /\ up /\ k.pc = "write"
       /\ closed[k.to].srv \/ closed[k.to].cli
       /\ Becomes(t, Dead(k, "OSError"))
       /\ UNCHANGED <<mvars, cvars, fvars, keys, clients, cli, backlog, s2c, c2s, wrote, got>>

\* Server.accept, lines 160-163, and Server.listen, line 174: the client is
\* put into the map and its receive thread is started
Insert ==
    LET k == task[ListenTask]
    IN /\ up /\ k.pc = "insert"
       /\ clients' = Append(clients, [username |-> k.username, conn |-> k.conn,
                                      session |-> k.session, key |-> k.key])
       /\ task' = [task EXCEPT
                     ![ListenTask] = [IdleTask EXCEPT !.pc = "accept"],
                     ![HandleTask(k.conn)] =
                         [IdleTask EXCEPT !.pc = "recv", !.conn = k.conn,
                            !.username = k.username, !.session = k.session]]
       /\ UNCHANGED <<mvars, cvars, fvars, keys, up, cli, backlog, s2c, c2s, closed, wrote, got>>

\* Server.handle, lines 194-195: Session.recv returns a message (or raises)
\* and the loop over self.clients.values() starts
HandleRecv(c) ==
    LET k == task[HandleTask(c)]
        r == Session_recv(keys, k.session, Head(c2s[c]))
    IN /\ up /\ k.pc = "recv" /\ c2s[c] # <<>>
       /\ c2s' = [c2s EXCEPT ![c] = Tail(@)]
       /\ keys' = r.heap
       /\ IF r.err # ""
          THEN Becomes(HandleTask(c), Dead(k, r.err))
          ELSE Becomes(HandleTask(c),
                  StartLoop(HandleTask(c), k,
                            k.username \o ColonSpace \o r.message,
                            clients, r.heap))
       /\ UNCHANGED <<mvars, cvars, fvars, clients, cli, backlog, s2c, wrote, got>>

\* Connection.recv on a stream the peer has closed: socket reads return
\* b"" and the loops of recv/_recv_chunk never end
HandleEof(c) ==
    /\ up /\ task[HandleTask(c)].pc = "recv"
    /\ c2s[c] = <<>> /\ closed[c].cli
    /\ task' = [task EXCEPT ![HandleTask(c)].pc = "spin"]
    /\ UNCHANGED <<mvars, cvars, fvars, keys, clients, up, cli, backlog, s2c, c2s, closed, wrote, got>>

\* one byte of block i of the frame the handler of c reads next is changed
\* in transit
Tamper(c, g) ==
    LET frame == Head(c2s[c])
    IN /\ task[HandleTask(c)].pc = "recv" /\ c2s[c] # <<>>
       /\ \A j \in 1..Len(frame) : ~IsChanged(frame[j])
       /\ \E i \in 1..Len(frame) :
             c2s' = [c2s EXCEPT ![c] = <<[frame EXCEPT ![i] = Changed(@, g)]>> \o Tail(@)]
       /\ UNCHANGED <<mvars, cvars, fvars, keys, clients, task, up, cli, backlog, s2c, closed, wrote, got>>

\* src/server.py broadcast(), line 27: server.broadcast(message)
OpInput(line) ==
    LET k == task[BroadcastTask]
    IN /\ up /\ k.pc = "input" /\ Inputs < MaxInputs
       /\ Becomes(BroadcastTask,
             StartLoop(BroadcastTask, [k EXCEPT !.lines = @ + 1],
                       chatname \o ColonSpace \o line, clients, keys))
       /\ UNCHANGED <<mvars, cvars, fvars, keys, clients, cli, backlog, s2c, c2s, wrote, got>>

\* ------------------------------------------------------ client processes
\* Client.connect, line 52: the TCP connection is made.  Connections are
\* numbered in the order in which they are made.
Connect(c, u) ==
    /\ up /\ cli[c].pc = "init"
    /\ \A d \in Conns : d < c => cli[d].pc # "init"
    /\ cli' = [cli EXCEPT ![c].pc = "recv_pub", ![c].username = u]
    /\ backlog' = Append(backlog, c)
    /\ UNCHANGED <<mvars, cvars, fvars, keys, clients, task, up, s2c, c2s, closed, wrote, got>>

\* Client.connect, lines 55-59: the server's public key arrives, the
\* client's public key and the encrypted username are sent
ClientHello(c) ==
    LET server_public == PublicKey_from_bytes(Head(s2c[c]))
        name_cipher == PublicKey_encrypt(server_public, cli[c].username)
    IN /\ cli[c].pc = "recv_pub" /\ s2c[c] # <<>>
       /\ s2c' = [s2c EXCEPT ![c] = Tail(@)]
       /\ IF name_cipher.err # "" \/ name_cipher.cipher[4] = <<>>
          THEN \* PublicKey.encrypt or Connection.send raises: the process ends
               /\ cli' = [cli EXCEPT ![c].pc = "dead", ![c].err = "ValueError"]
               /\ c2s' = [c2s EXCEPT ![c] =
                            Append(@, PublicKey_to_bytes(ClientKeys(c).public))]
               /\ closed' = [closed EXCEPT ![c].cli = TRUE]
          ELSE /\ cli' = [cli EXCEPT ![c].pc = "recv_key"]
               /\ c2s' = [c2s EXCEPT ![c] =
                            @ \o << PublicKey_to_bytes(ClientKeys(c).public),
                                    name_cipher.cipher >>]
               /\ UNCHANGED closed
       /\ UNCHANGED <<mvars, cvars, fvars, keys, clients, task, up, backlog, wrote, got>>

\* Client.connect, lines 62-66: the session key arrives and the session is
\* built; src/client.py main() then starts the read thread
ClientSession(c) ==
    LET key_data == PrivateKey_decrypt(ClientKeys(c).private, Head(s2c[c]))
        s == Session_init([keys EXCEPT ![CliKey(c)] = Key_from_bytes(key_data)],
                          CliKey(c), CliRecv(c), CliSend(c))
    IN /\ cli[c].pc = "recv_key" /\ s2c[c] # <<>>
       /\ s2c' = [s2c EXCEPT ![c] = Tail(@)]
       /\ keys' = s.heap
       /\ cli' = [cli EXCEPT ![c].pc = "open", ![c].conn_key = CliKey(c),
                       ![c].session = s.session, ![c].rd = "recv"]
       /\ UNCHANGED <<mvars, cvars, fvars, clients, task, up, backlog, c2s, closed, wrote, got>>

\* Client.connect blocked in Connection.recv on a stream the server has
\* closed: socket reads return b"" and the loops never end
ClientEof(c) ==
    /\ cli[c].pc \in {"recv_pub", "recv_key"}
    /\ s2c[c] = <<>> /\ closed[c].srv
    /\ cli' = [cli EXCEPT ![c].pc = "spin"]
    /\ UNCHANGED <<mvars, cvars, fvars, keys, clients, task, up, backlog, s2c, c2s, closed, wrote, got>>

\* the client process is interrupted inside Client.connect and ends; its
\* socket is closed
ClientAbort(c) ==
    /\ cli[c].pc \in {"recv_pub", "recv_key"}
    /\ Inputs < MaxInputs
    /\ cli' = [cli EXCEPT ![c].pc = "closed"]
    /\ closed' = [closed EXCEPT ![c].cli = TRUE]
    /\ UNCHANGED <<mvars, cvars, fvars, keys, clients, task, up, backlog, s2c, c2s, wrote, got>>

\* Client.send: Session.send by the client's only sending thread
ClientSend(c, line) ==
    LET ref == cli[c].session.send_key
        r == Key_encrypt(keys[ref], Session_data(line))
    IN /\ cli[c].pc = "open" /\ Inputs < MaxInputs
       /\ keys' = [keys EXCEPT ![ref] = r.key]
       /\ c2s' = [c2s EXCEPT ![c] = Append(@, r.cipher)]
       /\ cli' = [cli EXCEPT ![c].sent = @ + 1]
       /\ UNCHANGED <<mvars, cvars, fvars, clients, task, up, backlog, s2c, closed, wrote, got>>

\* src/client.py read(), line 15: Client.recv in the read thread
ClientRead(c) ==
    LET r == Session_recv(keys, cli[c].session, Head(s2c[c]))
    IN /\ cli[c].pc = "open" /\ cli[c].rd = "recv" /\ s2c[c] # <<>>
       /\ s2c' = [s2c EXCEPT ![c] = Tail(@)]
       /\ keys' = r.heap
       /\ IF r.err # ""
          THEN /\ cli' = [cli EXCEPT ![c].rd = "dead", ![c].err = r.err]
               /\ UNCHANGED got
          ELSE /\ got' = [got EXCEPT ![c] = Append(@, r.message)]
               /\ UNCHANGED cli
       /\ UNCHANGED <<mvars, cvars, fvars, clients, task, up, backlog, c2s, closed, wrote>>

\* Client.disconnect
ClientDisconnect(c) ==
    /\ cli[c].pc = "open"
    /\ Inputs < MaxInputs
    /\ cli' = [cli EXCEPT ![c].pc = "closed", ![c].conn_key = 0,
                    ![c].session = NoSession, ![c].rd = "off"]
    /\ closed' = [closed EXCEPT ![c].cli = TRUE]
    /\ UNCHANGED <<mvars, cvars, fvars, keys, clients, task, up, backlog, s2c, c2s, wrote, got>>

\* ----------------------------------------------------------- the program
Next ==
    \/ AcceptConn \/ AcceptHello \/ Insert
    \/ AcceptEof
    \/ \E t \in Tasks : SendCbc(t) \/ SendWrite(t) \/ SendFail(t)
    \/ \E c \in Conns : HandleRecv(c) \/ HandleEof(c)
    \/ \E c \in Conns, g \in ChangedEndings : Tamper(c, g)
    \/ \E line \in OpLines : OpInput(line)
    \/ \E c \in Conns : \/ \E u \in UserNames(c) : Connect(c, u)
                        \/ ClientHello(c) \/ ClientSession(c) \/ ClientEof(c)
                        \/ ClientAbort(c)
                        \/ \E line \in Lines : ClientSend(c, line)
                        \/ ClientRead(c) \/ ClientDisconnect(c)

Spec == Init /\ [][Next]_vars

\* ------------------------------------------- protocol.connection, by bytes
\* A byte string on the stream is kept as its runs: a sequence of
\* <<byte, count>>, count > 0, neighbouring runs of different bytes, so that
\* equal byte strings are equal values and a chunk of 32767 equal bytes is
\* one run.
ChunkCap == 32767

\* bytes([b]) * n
Rep(b, n) == IF n = 0 THEN <<>> ELSE << <<b, n>> >>

RECURSIVE BLen(_)
\* len(s)
BLen(s) == IF s = <<>> THEN 0 ELSE s[1][2] + BLen(Tail(s))

\* a + b
BCat(a, b) ==
    IF a = <<>> THEN b
    ELSE IF b = <<>> THEN a
    ELSE IF a[Len(a)][1] = b[1][1]
    THEN SubSeq(a, 1, Len(a) - 1)
         \o << <<b[1][1], a[Len(a)][2] + b[1][2]>> >> \o Tail(b)
    ELSE a \o b

RECURSIVE BTake(_, _)
\* s[:n]
BTake(s, n) ==
    IF n = 0 \/ s = <<>> THEN <<>>
    ELSE IF s[1][2] <= n THEN <<s[1]>> \o BTake(Tail(s), n - s[1][2])
    ELSE << <<s[1][1], n>> >>

RECURSIVE BDrop(_, _)
\* s[n:]
BDrop(s, n) ==
    IF n = 0 \/ s = <<>> THEN s
    ELSE IF s[1][2] <= n THEN BDrop(Tail(s), n - s[1][2])
    ELSE << <<s[1][1], s[1][2] - n>> >> \o Tail(s)

RECURSIVE int_from_bytes(_)
\* int.from_bytes(s, byteorder="big"); 0 for b""
int_from_bytes(s) ==
    IF s = <<>> THEN 0
    ELSE int_from_bytes(BTake(s, BLen(s) - 1)) * 256 + s[Len(s)][1]

\* header.to_bytes(2, byteorder="big")
to_bytes_2(header) == BCat(Rep(header \div 256, 1), Rep(header % 256, 1))

\* a header whose length field holds len(chunk) instead of len(chunk) - 1
chunk_header_FullLength(chunk, is_last) ==
    (IF is_last THEN 2 ^ 15 ELSE 0) + BLen(chunk)

\* Connection._send_chunk, line 54; | is + here, len(chunk) - 1 < 2^15
chunk_header(chunk, is_last) ==
    (IF is_last THEN 2 ^ 15 ELSE 0) + (BLen(chunk) - 1)

\* what the tasks hand to Connection.send: task 1 nothing or one byte,
\* task 2 one byte or more than one chunk holds
Messages(s) ==
    IF s = 1 THEN {<<>>, Rep(s, 1)} ELSE {Rep(s, 1), Rep(200 + s, ChunkCap + 7233)}

\* Connection.send where the ValueError for empty data would leave the
\* with statement without releasing send_lock
SendCall_KeepLock(s, data) ==
    /\ snd[s].pc = "idle" /\ send_lock = 0 /\ ~peer_closed
    /\ Len(sent) < MaxSends
    /\ sent' = Append(sent, <<s, data>>)
    /\ send_lock' = s
    /\ snd' = IF BLen(data) = 0
              THEN [snd EXCEPT ![s].err = "ValueError"]
              ELSE [snd EXCEPT ![s] = [IdleSender EXCEPT !.pc = "header",
                                                        !.data = data]]
    /\ UNCHANGED <<mvars, cvars, pvars, wire, buf, recv_lock, rcv, received, peer_closed,
                   local_closed, fragments>>

\* Connection.send, lines 78-81: send_lock is taken; empty data raises
\* ValueError and the with statement releases the lock
SendCall(s, data) ==
    /\ snd[s].pc = "idle" /\ send_lock = 0 /\ ~peer_closed
    /\ Len(sent) < MaxSends
    /\ sent' = Append(sent, <<s, data>>)
    /\ IF BLen(data) = 0
       THEN /\ snd' = [snd EXCEPT ![s].err = "ValueError"]
            /\ UNCHANGED send_lock
       ELSE /\ snd' = [snd EXCEPT ![s] = [IdleSender EXCEPT !.pc = "header",
                                                         !.data = data]]
            /\ send_lock' = s
    /\ UNCHANGED <<mvars, cvars, pvars, wire, buf, recv_lock, rcv, received, peer_closed,
                   local_closed, fragments>>

\* Connection.send, lines 86-88, and _send_chunk, lines 51-55: the next
\* chunk is cut and its header written
SendHeader(s) ==
    LET k == snd[s]
        total_length == BLen(k.data)
        chunk_size == Min(ChunkCap, total_length - k.offset)
        is_last == (k.offset + chunk_size) = total_length
        chunk == BTake(BDrop(k.data, k.offset), chunk_size)
    IN /\ k.pc = "header"
       /\ IF BLen(chunk) > ChunkCap
          THEN /\ snd' = [snd EXCEPT ![s] =
                            [IdleSender EXCEPT !.err = "ValueError"]]
               /\ send_lock' = 0
               /\ UNCHANGED wire
          ELSE /\ wire' = BCat(wire, to_bytes_2(chunk_header(chunk, is_last)))
               /\ snd' = [snd EXCEPT ![s].pc = "chunk", ![s].chunk = chunk,
                                     ![s].is_last = is_last]
               /\ UNCHANGED send_lock
       /\ UNCHANGED <<mvars, cvars, pvars, buf, sent, recv_lock, rcv, received, peer_closed,
                      local_closed, fragments>>

\* _send_chunk, line 56, and Connection.send, lines 85-91: the payload is
\* written; after the last chunk the lock is released
SendChunk(s) ==
    LET k == snd[s]
        offset == k.offset + BLen(k.chunk)
    IN /\ k.pc = "chunk"
       /\ wire' = BCat(wire, k.chunk)
       /\ IF offset < BLen(k.data)
          THEN /\ snd' = [snd EXCEPT ![s].pc = "header", ![s].offset = offset,
                                     ![s].chunk = <<>>]
               /\ UNCHANGED send_lock
          ELSE /\ snd' = [snd EXCEPT ![s] = IdleSender]
               /\ send_lock' = 0
       /\ UNCHANGED <<mvars, cvars, pvars, buf, sent, recv_lock, rcv, received, peer_closed,
                      local_closed, fragments>>

\* TCP: n of the bytes under way arrive.  A delivery of all of them is
\* free, one that splits them counts against MaxFragments.
Deliver(n) ==
    /\ wire # <<>> /\ n <= BLen(wire)
    /\ n < BLen(wire) => fragments < MaxFragments
    /\ fragments' = IF n < BLen(wire) THEN fragments + 1 ELSE fragments
    /\ buf' = BCat(buf, BTake(wire, n))
    /\ wire' = BDrop(wire, n)
    /\ UNCHANGED <<mvars, cvars, pvars, send_lock, snd, sent, recv_lock, rcv, received,
                   peer_closed, local_closed>>

\* socket.recv(bufsize) would return now
Readable == buf # <<>> \/ (peer_closed /\ wire = <<>>) \/ local_closed

\* socket.recv(bufsize): [err, bytes]; OSError on a socket closed by this
\* end, what has arrived up to bufsize bytes, b"" at the end of the stream
socket_recv(bufsize) ==
    IF local_closed THEN [err |-> "OSError", bytes |-> <<>>]
    ELSE [err |-> "", bytes |-> BTake(buf, bufsize)]

\* Connection.recv, lines 104-107: recv_lock is taken
RecvCall ==
    /\ rcv.pc \in {"idle", "failed"} /\ ~recv_lock
    /\ recv_lock' = TRUE
    /\ rcv' = [IdleReceiver EXCEPT !.pc = "header"]
    /\ UNCHANGED <<mvars, cvars, pvars, wire, buf, send_lock, snd, sent, received,
                   peer_closed, local_closed, fragments>>

\* an exception leaves Connection.recv; the with statement releases
\* recv_lock
RecvRaise(e) ==
    /\ rcv' = [rcv EXCEPT !.pc = "failed", !.err = e]
    /\ recv_lock' = FALSE
    /\ UNCHANGED <<buf, received>>

\* _recv_chunk, lines 59-63: one socket read of up to 2 bytes is the header
RecvHeader ==
    LET r == socket_recv(2)
        header == int_from_bytes(r.bytes)
    IN /\ rcv.pc = "header" /\ Readable
       /\ IF r.err # ""
          THEN RecvRaise(r.err)
          ELSE /\ rcv' = [rcv EXCEPT
                            !.pc = "payload",
                            !.is_last = (header \div (2 ^ 15)) # 0,
                            !.length = (header % (2 ^ 15)) + 1,
                            !.chunk = <<>>,
                            !.eof_seen = @ \/ r.bytes = <<>>]
               /\ buf' = BDrop(buf, BLen(r.bytes))
               /\ UNCHANGED <<recv_lock, received>>
       /\ UNCHANGED <<mvars, cvars, pvars, wire, send_lock, snd, sent, peer_closed,
                      local_closed, fragments>>

\* _recv_chunk, lines 64-67, and Connection.recv, lines 107-113: one more
\* socket read of the payload; when the chunk is whole it is added to data,
\* and data is returned after a chunk whose flag is set
RecvPayload ==
    LET r == socket_recv(rcv.length - BLen(rcv.chunk))
        chunk == BCat(rcv.chunk, r.bytes)
        data == BCat(rcv.data, chunk)
    IN /\ rcv.pc = "payload" /\ Readable
       /\ IF r.err # ""
          THEN RecvRaise(r.err)
          ELSE /\ buf' = BDrop(buf, BLen(r.bytes))
               /\ IF BLen(chunk) < rcv.length
                  THEN /\ rcv' = [rcv EXCEPT !.chunk = chunk,
                                     !.eof_seen = @ \/ r.bytes = <<>>]
                       /\ UNCHANGED <<recv_lock, received>>
                  ELSE IF ~rcv.is_last
                  THEN /\ rcv' = [rcv EXCEPT !.pc = "header", !.data = data,
                                             !.chunk = <<>>]
                       /\ UNCHANGED <<recv_lock, received>>
                  ELSE /\ rcv' = IdleReceiver
                       /\ recv_lock' = FALSE
                       /\ received' = Append(received, data)
       /\ UNCHANGED <<mvars, cvars, pvars, wire, send_lock, snd, sent, peer_closed,
                      local_closed, fragments>>

\* Connection.close by the sending end, between its sends
PeerClose ==
    /\ ~peer_closed /\ send_lock = 0
    /\ peer_closed' = TRUE
    /\ UNCHANGED <<mvars, cvars, pvars, wire, buf, send_lock, snd, sent, recv_lock, rcv,
                   received, local_closed, fragments>>

\* Connection.close by the receiving end
LocalClose ==
    /\ ~local_closed
    /\ local_closed' = TRUE
    /\ UNCHANGED <<mvars, cvars, pvars, wire, buf, send_lock, snd, sent, recv_lock, rcv,
                   received, peer_closed, fragments>>

NextFraming ==
    \/ \E s \in SendTasks : \/ \E data \in Messages(s) : SendCall(s, data)
                            \/ SendHeader(s) \/ SendChunk(s)
    \/ \E n \in {1, BLen(wire)} : Deliver(n)
    \/ RecvCall \/ RecvHeader \/ RecvPayload
    \/ PeerClose \/ LocalClose

SpecFraming == Init /\ [][NextFraming]_vars

\* ------------------------------------------ crypto.aes.key.Key on its own
\* A Key object is created and copied three times; one object encrypts a
\* sequence of messages, a copy decrypts what it returned, and the two other
\* copies are given the same calls.
KeySizes == {128, 192, 256}
KeySeeds == {3, 9}
\* messages of length 0, 1, 16 and 17
CbcMessages ==
    {<<>>, <<7>>, [i \in 1..16 |-> 64 + i], [i \in 1..17 |-> 64 + i]}

\* Key.generate(size) followed by three Key.copy()
CbcInit ==
    \E size \in KeySizes, r \in KeySeeds :
        LET h0 == [[x \in CryptoRefs |-> NoKey] EXCEPT ![1] = Key_generate(size, r)]
            c1 == Key_copy(h0, 1, 2)
            c2 == Key_copy(c1.heap, 1, 3)
            c3 == Key_copy(c2.heap, 1, 4)
        IN /\ ckeys = c3.heap
           /\ refs = [enc |-> 1, dec |-> c1.ref, twin_enc |-> c2.ref,
                      twin_dec |-> c3.ref]
           /\ given = <<>> /\ outs = <<>> /\ back = <<>>
           /\ twin_outs = <<>> /\ twin_back = <<>>

\* Key.encrypt(message) on the encrypting object
Encrypt(message) ==
    LET r == Key_encrypt(ckeys[refs.enc], message)
    IN /\ refs.enc # 0 /\ Len(given) < MaxCalls
       /\ ckeys' = [ckeys EXCEPT ![refs.enc] = r.key]
       /\ given' = Append(given, message)
       /\ outs' = Append(outs, r.cipher)
       /\ UNCHANGED <<mvars, pvars, fvars, refs, back, twin_outs, twin_back, rsa>>

\* Key.decrypt(cipher) on the decrypting object, the ciphertexts in order
Decrypt ==
    LET r == Key_decrypt(ckeys[refs.dec], outs[Len(back) + 1])
    IN /\ Len(back) < Len(outs)
       /\ ckeys' = [ckeys EXCEPT ![refs.dec] = r.key]
       /\ back' = Append(back, r.message)
       /\ UNCHANGED <<mvars, pvars, fvars, refs, given, outs, twin_outs, twin_back, rsa>>

\* the same Key.encrypt calls on the second encrypting object
TwinEncrypt ==
    LET r == Key_encrypt(ckeys[refs.twin_enc], given[Len(twin_outs) + 1])
    IN /\ Len(twin_outs) < Len(given)
       /\ ckeys' = [ckeys EXCEPT ![refs.twin_enc] = r.key]
       /\ twin_outs' = Append(twin_outs, r.cipher)
       /\ UNCHANGED <<mvars, pvars, fvars, refs, given, outs, back, twin_back, rsa>>

\* the same Key.decrypt calls on the second decrypting object
TwinDecrypt ==
    LET r == Key_decrypt(ckeys[refs.twin_dec], outs[Len(twin_back) + 1])
    IN /\ Len(twin_back) < Len(outs)
       /\ ckeys' = [ckeys EXCEPT ![refs.twin_dec] = r.key]
       /\ twin_back' = Append(twin_back, r.message)
       /\ UNCHANGED <<mvars, pvars, fvars, refs, given, outs, back, twin_outs, rsa>>

InitCbc ==
    ProgramInit /\ CbcInit /\ RsaIdle /\ GfIdle /\ AesIdle /\ PadIdle /\ FermatIdle

NextCbc ==
    \/ \E message \in CbcMessages : Encrypt(message)
    \/ Decrypt
    \/ TwinEncrypt
    \/ TwinDecrypt

SpecCbc == InitCbc /\ [][NextCbc]_vars

\* ------------------------------------------------- crypto.rsa on its own
RsaSeeds == {1, 3}
RsaBytes == {0, 1, 65, 255}
\* the byte strings over RsaBytes up to MaxRsaLen, one of the length of the
\* modulus below it, and one of that length above it
RsaMessages ==
    UNION {[1..n -> RsaBytes] : n \in 0..MaxRsaLen}
    \cup {[i \in 1..(RsaKeySize \div 8) |-> 127],
          [i \in 1..(RsaKeySize \div 8) |-> 255]}

\* generate_keys(1024, 16) and a plaintext
RsaInit ==
    \E r \in RsaSeeds, m \in RsaMessages :
        rsa = [IdleRsa EXCEPT !.pc = "start",
                              !.pair = generate_keys(RsaKeySize, r), !.m = m]

\* PublicKey.encrypt(m)
RsaEncrypt ==
    LET r == PublicKey_encrypt(rsa.pair.public, rsa.m)
    IN /\ rsa.pc = "start"
       /\ rsa' = IF r.err # "" THEN [rsa EXCEPT !.pc = r.err]
                 ELSE [rsa EXCEPT !.pc = "encrypted", !.cipher = r.cipher]
       /\ UNCHANGED <<mvars, pvars, fvars, ckeys, refs, given, outs, back, twin_outs, twin_back>>

\* PrivateKey.decrypt(cipher)
RsaDecrypt ==
    /\ rsa.pc = "encrypted"
    /\ rsa' = [rsa EXCEPT !.pc = "done",
                          !.out = PrivateKey_decrypt(rsa.pair.private, rsa.cipher)]
    /\ UNCHANGED <<mvars, pvars, fvars, ckeys, refs, given, outs, back, twin_outs, twin_back>>

InitRsa ==
    ProgramInit /\ CbcIdle /\ RsaInit /\ GfIdle /\ AesIdle /\ PadIdle /\ FermatIdle

NextRsa == RsaEncrypt \/ RsaDecrypt

SpecRsa == InitRsa /\ [][NextRsa]_vars

\* --------------------------------------------- GF.multiply on its own
Bytes == 0..255

GfInit == \E a \in Bytes, b \in Bytes : gf = [IdleGf EXCEPT !.pc = "start", !.a = a, !.b = b]

\* GF.multiply(a, b) and GF.multiply(b, a)
GfMultiply ==
    /\ gf.pc = "start"
    /\ gf' = [gf EXCEPT !.pc = "done", !.ab = GF_multiply(gf.a, gf.b),
                        !.ba = GF_multiply(gf.b, gf.a)]
    /\ UNCHANGED <<pvars, fvars, cvars, aes, pad, fermat>>

InitGf ==
    ProgramInit /\ CbcIdle /\ RsaIdle /\ GfInit /\ AesIdle /\ PadIdle /\ FermatIdle

NextGf == GfMultiply

SpecGf == InitGf /\ [][NextGf]_vars

\* ------------------------------------------- crypto.aes.block on its own
AesKeyLengths == {16, 24, 32}
AesSeeds == {1, 7, 255}
\* keys whose byte i is seed * i mod 256, numbered from 0
AesKeys ==
    {[i \in 1..n |-> (seed * (i - 1)) % 256] : n \in AesKeyLengths, seed \in AesSeeds}
AesBlocks ==
    {[i \in 1..16 |-> (x * (i - 1) + y) % 256] :
        x \in {0, 17, 101}, y \in {0, 255}}

AesInit ==
    \E key \in AesKeys, block \in AesBlocks :
        aes = [IdleAes EXCEPT !.pc = "start", !.key = key,
                              !.rounds = RoundsFor(Len(key)), !.block = block]

\* encrypt_block(key, block, rounds) is called: expand_key starts, line 239
AesEncryptBlock ==
    /\ aes.pc = "start"
    /\ aes' = [aes EXCEPT !.pc = "expand_key", !.call = "encrypt",
                          !.state = aes.block, !.schedule = <<>>, !.rc = 1]
    /\ UNCHANGED <<pvars, fvars, cvars, gf, pad, fermat>>

\* decrypt_block(key, block, rounds) is called on what encrypt_block left:
\* expand_key starts, line 263
AesDecryptBlock ==
    /\ aes.pc = "encrypted"
    /\ aes' = [aes EXCEPT !.pc = "expand_key", !.call = "decrypt",
                          !.state = aes.cipher, !.schedule = <<>>, !.rc = 1]
    /\ UNCHANGED <<pvars, fvars, cvars, gf, pad, fermat>>

\* expand_key, lines 206-223: one pass of the loop, word i = Len(schedule) / 4
AesExpandWord ==
    LET i == Len(aes.schedule) \div 4
    IN /\ aes.pc = "expand_key"
       /\ i < 4 * (aes.rounds + 1)
       /\ aes' = [aes EXCEPT
                    !.schedule = @ \o expand_word(aes.key, aes.schedule, i, aes.rc),
                    !.rc = expand_rc(aes.key, i, @)]
       /\ UNCHANGED <<pvars, fvars, cvars, gf, pad, fermat>>

\* expand_key returns (line 225); encrypt_block goes on with line 240,
\* decrypt_block with lines 264-267
AesExpandReturn ==
    LET round_keys == round_keys_of(aes.schedule, aes.rounds)
    IN /\ aes.pc = "expand_key"
       /\ Len(aes.schedule) = 16 * (aes.rounds + 1)
       /\ aes' = IF aes.call = "encrypt"
                 THEN [aes EXCEPT !.pc = "encrypt", !.schedule = <<>>, !.rc = 0,
                          !.round_keys = round_keys, !.i = 1,
                          !.state = add_round_key(aes.state, round_keys[1])]
                 ELSE [aes EXCEPT !.pc = "decrypt", !.schedule = <<>>, !.rc = 0,
                          !.round_keys = Reversed(round_keys), !.i = 1,
                          !.state = decrypt_first_round(aes.state,
                                        Reversed(round_keys)[1])]
       /\ UNCHANGED <<pvars, fvars, cvars, gf, pad, fermat>>

\* encrypt_block, lines 241-249: round i; the last one leaves the ciphertext
AesEncryptRound ==
    /\ aes.pc = "encrypt"
    /\ aes' = IF aes.i < aes.rounds
              THEN [aes EXCEPT !.i = @ + 1,
                       !.state = encrypt_round(aes.state, aes.round_keys[aes.i + 1])]
              ELSE [aes EXCEPT !.pc = "encrypted", !.i = 0, !.state = <<>>,
                       !.round_keys = <<>>, !.call = "",
                       !.cipher = encrypt_last_round(aes.state,
                                      aes.round_keys[aes.rounds + 1])]
    /\ UNCHANGED <<pvars, fvars, cvars, gf, pad, fermat>>

\* decrypt_block, lines 269-275: round i; the last step adds round key 0
AesDecryptRound ==
    /\ aes.pc = "decrypt"
    /\ aes' = IF aes.i < aes.rounds
              THEN [aes EXCEPT !.i = @ + 1,
                       !.state = decrypt_round(aes.state, aes.round_keys[aes.i + 1])]
              ELSE [aes EXCEPT !.pc = "done", !.i = 0, !.state = <<>>,
                       !.round_keys = <<>>, !.call = "",
                       !.out = add_round_key(aes.state,
                                             aes.round_keys[aes.rounds + 1])]
    /\ UNCHANGED <<pvars, fvars, cvars, gf, pad, fermat>>

InitAes ==
    ProgramInit /\ CbcIdle /\ RsaIdle /\ GfIdle /\ AesInit /\ PadIdle /\ FermatIdle

NextAes ==
    \/ AesEncryptBlock \/ AesDecryptBlock \/ AesExpandWord \/ AesExpandReturn
    \/ AesEncryptRound \/ AesDecryptRound

SpecAes == InitAes /\ [][NextAes]_vars

\* ------------------------------------- the padding byte read by Key.decrypt
\* A plaintext of one or two blocks whose last byte is p is CBC-encrypted
\* under the (key, iv) of a Key object, and the object decrypts the result.
PadLengths == {16, 32}

\* a plaintext of n bytes, all 65 but the last, which is p
PadPlain(n, p) == [i \in 1..n |-> IF i = n THEN p ELSE 65]

PadInit ==
    \E n \in PadLengths, p \in Bytes, size \in KeySizes :
        pad = [IdlePad EXCEPT !.pc = "start", !.key = Key_generate(size, 3),
                              !.plain = PadPlain(n, p)]

\* cbc_encrypt(plain, iv, key, rounds) by the holder of the same (key, iv)
PadEncrypt ==
    /\ pad.pc = "start"
    /\ pad' = [pad EXCEPT !.pc = "encrypted",
                 !.cipher = cbc_encrypt(pad.plain, pad.key.iv, pad.key.key,
                                        pad.key.rounds)[1]]
    /\ UNCHANGED <<pvars, fvars, cvars, gf, aes, fermat>>

\* Key.decrypt(cipher)
PadDecrypt ==
    LET r == Key_decrypt(pad.key, pad.cipher)
    IN /\ pad.pc = "encrypted"
       /\ pad' = [pad EXCEPT !.pc = "done", !.key = r.key, !.out = r.message]
       /\ UNCHANGED <<pvars, fvars, cvars, gf, aes, fermat>>

InitPad ==
    ProgramInit /\ CbcIdle /\ RsaIdle /\ GfIdle /\ AesIdle /\ PadInit /\ FermatIdle

NextPad == PadEncrypt \/ PadDecrypt

SpecPad == InitPad /\ [][NextPad]_vars

\* ---------------------------------------------- crypto.rsa.is_prime alone
RECURSIVE ModPow(_, _, _)
\* pow(a, e, n)
ModPow(a, e, n) == IF e = 0 THEN 1 % n ELSE (a * ModPow(a, e - 1, n)) % n

\* n has no divisor between 1 and n
IsPrimeNumber(n) == n > 1 /\ \A d \in 2..(n - 1) : n % d # 0

\* is_prime(n, k) is called
FermatInit ==
    \E n \in 0..MaxFermatN, k \in 1..MaxTrials :
        fermat = [IdleFermat EXCEPT !.pc = "start", !.n = n, !.k = k]

\* is_prime, lines 111-114
FermatSmall ==
    /\ fermat.pc = "start"
    /\ fermat' = IF fermat.n <= 1
                 THEN [fermat EXCEPT !.pc = "done", !.result = FALSE]
                 ELSE IF fermat.n <= 3
                 THEN [fermat EXCEPT !.pc = "done", !.result = TRUE]
                 ELSE [fermat EXCEPT !.pc = "loop"]
    /\ UNCHANGED <<pvars, fvars, cvars, gf, aes, pad>>

\* is_prime, lines 116-119: one pass of the loop; r is what
\* secrets.randbelow(n - 1) returns
FermatTrial(r) ==
    LET a == r + 2
    IN /\ fermat.pc = "loop" /\ Len(fermat.draws) < fermat.k
       /\ r \in 0..(fermat.n - 2)
       /\ fermat' = IF ModPow(a, fermat.n - 1, fermat.n) # 1
                    THEN [fermat EXCEPT !.pc = "done", !.result = FALSE,
                                        !.draws = Append(@, a)]
                    ELSE [fermat EXCEPT !.draws = Append(@, a)]
       /\ UNCHANGED <<pvars, fvars, cvars, gf, aes, pad>>

\* is_prime, line 121: the loop has made its k passes
FermatReturn ==
    /\ fermat.pc = "loop" /\ Len(fermat.draws) = fermat.k
    /\ fermat' = [fermat EXCEPT !.pc = "done", !.result = TRUE]
    /\ UNCHANGED <<pvars, fvars, cvars, gf, aes, pad>>

InitFermat ==
    ProgramInit /\ CbcIdle /\ RsaIdle /\ GfIdle /\ AesIdle /\ PadIdle /\ FermatInit

NextFermat ==
    \/ FermatSmall
    \/ \E r \in 0..MaxFermatN : FermatTrial(r)
    \/ FermatReturn

SpecFermat == InitFermat /\ [][NextFermat]_vars

\* ---------------------------------------------------------------- claims
\* the server's Session of connection c: held by Server.accept until the
\* client is in the map, by the ConnectedClient afterwards
SrvSession(c) ==
    IF \E i \in 1..Len(clients) : clients[i].conn = c
    THEN clients[CHOOSE i \in 1..Len(clients) : clients[i].conn = c].session
    ELSE IF task[ListenTask].conn = c THEN task[ListenTask].session
    ELSE NoSession

\* threads of the server inside Session.send of the session of c
Senders(c) == {t \in Tasks : task[t].pc \in {"cbc", "write"} /\ task[t].to = c}

SameKeyIv(a, b) == keys[a].key = keys[b].key /\ keys[a].iv = keys[b].iv

IsPrefix(a, b) == Len(a) <= Len(b) /\ a = SubSeq(b, 1, Len(a))

\* C1: once the handshake is complete, whenever every ciphertext sent on a
\* direction of a connection has been received by the peer and no
\* Session.send is under way, the sender's send_key and the receiver's
\* recv_key hold the same (key, iv), in both directions.
C1_IvSynchronized ==
    \A c \in Conns :
        (cli[c].pc = "open" /\ SrvSession(c) # NoSession /\ Senders(c) = {})
        => /\ s2c[c] = <<>> =>
                SameKeyIv(SrvSession(c).send_key, cli[c].session.recv_key)
           /\ c2s[c] = <<>> =>
                SameKeyIv(cli[c].session.send_key, SrvSession(c).recv_key)

\* C2: no two threads of the server are inside Session.send of the same
\* session at once.
C2_SingleSender == \A c \in Conns : Cardinality(Senders(c)) <= 1

\* C3: what a client's successive Session.recv calls return is, in order,
\* what the server sent to it, and no Session.recv fails its integrity
\* check.
C3_InOrderDelivery ==
    \A c \in Conns :
        /\ IsPrefix(got[c], wrote[c])
        /\ cli[c].err # "HashMismatch"
        /\ task[HandleTask(c)].err # "HashMismatch"

RECURSIVE DataOf(_)
\* the data of a sequence of <<task, data>>
DataOf(calls) ==
    IF calls = <<>> THEN <<>> ELSE <<calls[1][2]>> \o DataOf(Tail(calls))

\* the non-empty data handed to Connection.send, in the order of the calls
SentData == DataOf(SelectSeq(sent, LAMBDA e : e[2] # <<>>))

\* the non-empty data handed to Connection.send by task s
SentBy(s) == DataOf(SelectSeq(sent, LAMBDA e : e[1] = s /\ e[2] # <<>>))

\* what Connection.recv returned that task s may have sent
ReceivedFrom(s) == SelectSeq(received, LAMBDA d : d \in Messages(s))

\* C4: the successive Connection.recv calls return the non-empty data of
\* the successive Connection.send calls: received is, in order and byte for
\* byte, a prefix of what was sent.
C4_FramingRoundTrip == IsPrefix(received, SentData)

\* C5: when two tasks send on the same connection, every message the
\* receiver obtains is a whole message of one of them, and the messages of
\* each task are obtained in the order in which that task sent them.
C5_NoChunkSplicing ==
    (\A s \in SendTasks : SentBy(s) # <<>>)
    => /\ \A i \in 1..Len(received) :
             \E s \in SendTasks : received[i] \in Messages(s)
       /\ \A s \in SendTasks : IsPrefix(ReceivedFrom(s), SentBy(s))

\* C6: a Connection.recv that has had a socket read return zero bytes has
\* ended with the ConnectionClosed failure and released recv_lock.
C6_ClosedStreamEndsRecv ==
    rcv.eof_seen
    => rcv.pc = "failed" /\ rcv.err = "ConnectionClosed" /\ ~recv_lock

\* C7: a client whose receive thread has ended has no entry in the map and
\* its connection is closed.
C7_RemovedOnFailure ==
    \A c \in Conns :
        task[HandleTask(c)].pc = "dead"
        => /\ ~\E i \in 1..Len(clients) : clients[i].conn = c
           /\ closed[c].srv

\* C8: a send that fails for one recipient of a broadcast or of a forwarded
\* message ends no thread of the server.
C8_SendFailureSwallowed ==
    \A t \in Tasks :
        ~(task[t].pc = "dead" /\ task[t].err = "OSError"
            /\ task[t].phase # "welcome")

\* C9: the map is not inserted into while a thread is iterating over it.
C9_MapNotChangedUnderIteration ==
    \A t \in Tasks :
        (task[t].pc \in {"cbc", "write"} /\ task[t].phase # "welcome")
        => task[t].it_size = Len(clients)

\* C10: every username in the map is valid, differs from the chatname and
\* from the username of every other entry.
C10_NamesValid ==
    \A i \in 1..Len(clients) :
        /\ validate_name(clients[i].username)
        /\ clients[i].username # chatname
        /\ \A j \in 1..Len(clients) :
              j # i => clients[j].username # clients[i].username

\* the username Server.accept is about to decrypt on the connection it holds
PendingName ==
    PrivateKey_decrypt(ServerKeys.private, c2s[task[ListenTask].conn][2])

\* the listen thread, holding both messages of the client, takes its step
\* out of lines 141-157 of Server.accept
HelloStep ==
    /\ task[ListenTask].pc = "hello"
    /\ Len(c2s[task[ListenTask].conn]) >= 2
    /\ task'[ListenTask] # task[ListenTask]

\* C11: when the username received in a handshake equals the chatname or is
\* a key of the client map, the step of Server.accept closes the connection
\* and goes back to accepting: no Key object is made, nothing is written to
\* any socket, the map is the same and no receive thread is started.
C11_RejectedBeforeSession ==
    [][(HelloStep /\ (PendingName = chatname
                       \/ \E i \in 1..Len(clients) :
                             clients[i].username = PendingName))
       => /\ closed'[task[ListenTask].conn].srv
          /\ task'[ListenTask].pc = "accept"
          /\ clients' = clients /\ keys' = keys
          /\ s2c' = s2c /\ wrote' = wrote
          /\ \A c \in Conns : task'[HandleTask(c)] = task[HandleTask(c)]]_vars

\* a second handshake under the name of a connected client has been refused
C11_Witness ==
    \E c \in Conns :
        /\ up /\ closed[c].srv /\ keys[SrvKey(c)] = NoKey
        /\ \E i \in 1..Len(clients) :
              clients[i].username = cli[c].username /\ clients[i].conn # c

\* C12: a connection on which Server.accept has failed, or has met a closed
\* peer, before a session was built is closed by the server and has no entry
\* in the map.
C12_HandshakeFailureCloses ==
    \A c \in Conns :
        (/\ task[ListenTask].conn = c
         /\ task[ListenTask].pc \in {"dead", "spin"}
         /\ task[ListenTask].session = NoSession)
        => /\ closed[c].srv
           /\ ~\E i \in 1..Len(clients) : clients[i].conn = c

\* occurrences of x in the sequence s
Count(s, x) == Cardinality({i \in 1..Len(s) : s[i] = x})

\* f"{self.chatname}: {username} has joined the chat"
JoinText(username) == chatname \o ColonSpace \o username \o HasJoined

\* C13: every client that was in the map before the handshake of u has been
\* sent "{chatname}: {u} has joined the chat" exactly once when the Welcome
\* message is sent to u; u is in the map only after both: while the join
\* notices are sent nothing has been sent on the session of u, and every
\* entry of the map has been sent something on its session.
C13_JoinNotification ==
    LET k == task[ListenTask]
    IN /\ \A i, j \in 1..Len(clients) :
             i < j => Count(wrote[clients[i].conn],
                            JoinText(clients[j].username)) = 1
       /\ (k.phase = "welcome" /\ k.pc # "dead")
          => \A i \in 1..Len(clients) :
                Count(wrote[clients[i].conn], JoinText(k.username)) = 1
       /\ k.phase = "join" => wrote[k.conn] = <<>>
       /\ \A j \in 1..Len(clients) : wrote[clients[j].conn] # <<>>

\* a second client is in the map and the first was sent its join notice
C13_Witness ==
    /\ Len(clients) = 2
    /\ Count(wrote[clients[1].conn], JoinText(clients[2].username)) = 1

\* C14: the first message the server sends on the session of a client is
\* "{chatname}: Welcome to the chat \"{chatname}\"".
C14_WelcomeMessage ==
    \A c \in Conns :
        wrote[c] # <<>>
        => wrote[c][1] = chatname \o ColonSpace \o WelcomeTo \o chatname \o Quote

\* thread t is not, or no longer, inside the loop that sends its message
LoopOver(t) == task[t].message # <<>> /\ task[t].pc \notin {"cbc", "write"}

\* C15: the message a receive thread forwards for client s is never sent on
\* the session of s, and once the thread is out of its loop the message was
\* sent to every other client that was in the map and has not left; once
\* the operator's broadcast is out of its loop the message was sent to every
\* client that was in the map and has not left.
C15_ForwardToOthers ==
    \A t \in Conns \cup {BroadcastTask} :
        /\ t \in Conns => Count(wrote[t], task[t].message) = 0
        /\ LoopOver(t)
           => \A i \in 1..task[t].it_size :
                 (clients[i].conn # t /\ ~closed[clients[i].conn].cli)
                 => Count(wrote[clients[i].conn], task[t].message) >= 1

\* the frame the handler of c takes in this step has one byte changed
TamperedRecv(c) ==
    /\ task[HandleTask(c)].pc = "recv" /\ c2s[c] # <<>>
    /\ c2s'[c] = Tail(c2s[c])
    /\ \E j \in 1..Len(Head(c2s[c])) : IsChanged(Head(c2s[c])[j])

\* C16: when the frame a client handler reads had one byte changed in
\* transit, Session.recv raises the hash mismatch, no message is forwarded
\* and the handler thread ends.
C16_TamperDetected ==
    [][\A c \in Conns :
          TamperedRecv(c)
          => /\ task'[HandleTask(c)].pc = "dead"
             /\ task'[HandleTask(c)].err = "HashMismatch"]_vars

\* C17: a Key object and a copy of it made before any call: what the copy's
\* decrypt returns for the i-th ciphertext is the i-th message given to
\* encrypt, the calls being made in the same order on both sides.
C17_CbcRoundTrip ==
    \A i \in 1..Len(back) : back[i] = given[i]

C17_Witness ==
    /\ Len(back) = MaxCalls
    /\ \E i, j \in 1..Len(back) : back[i] = <<>> /\ Len(back[j]) = 16

\* one 16-byte block: sixteen bytes, or one block of a ciphertext
IsBlock(b) == IsEnc(b) \/ (Len(b) = 16 /\ \A i \in 1..16 : b[i] \in 0..255)

\* C18: a ciphertext being the sequence of its 16-byte blocks: after
\* encrypt the iv of the object is the last block of the ciphertext
\* returned, after decrypt it is the last block of the ciphertext given;
\* the iv of every Key object is one block and its round count is 10, 12
\* or 14 for a key of 16, 24 or 32 bytes.
C18_IvCarryOver ==
    /\ outs # <<>>
       => ckeys[refs.enc].iv = outs[Len(outs)][Len(outs[Len(outs)])]
    /\ back # <<>>
       => ckeys[refs.dec].iv = outs[Len(back)][Len(outs[Len(back)])]
    /\ \A x \in {refs.enc, refs.dec, refs.twin_enc, refs.twin_dec} \ {0} :
          /\ IsBlock(ckeys[x].iv)
          /\ Len(ckeys[x].key) \in {16, 24, 32}
          /\ ckeys[x].rounds = 6 + Len(ckeys[x].key) \div 4

C18_Witness ==
    /\ Len(outs) = MaxCalls /\ Len(back) = 2
    /\ Len(ckeys[refs.enc].key) = 24
    /\ ckeys[refs.dec].iv # ckeys[refs.enc].iv

C20_RsaRoundTrip ==
    rsa.pc = "done" => rsa.out = rsa.m

\* C29: for all bytes a and b the product GF.multiply(a, b) is a byte and
\* equals GF.multiply(b, a); a product with 1 is the other operand and a
\* product with 0 is 0.
C29_GfClosedCommutative ==
    gf.pc = "done"
    => /\ gf.ab \in 0..255
       /\ gf.ab = gf.ba
       /\ gf.b = 1 => gf.ab = gf.a
       /\ gf.a = 1 => gf.ab = gf.b
       /\ (gf.a = 0 \/ gf.b = 0) => gf.ab = 0

C29_Witness ==
    gf.pc = "done" /\ gf.a = 255 /\ gf.b = 254 /\ gf.ab # 0

\* C21: for every key of 16, 24 or 32 bytes with its round count and every
\* 16-byte block, decrypt_block gives back the block encrypt_block was
\* given, and what encrypt_block leaves is a block of 16 bytes.
C21_BlockRoundTrip ==
    /\ aes.pc \in {"encrypted", "done"}
       => Len(aes.cipher) = 16 /\ \A i \in 1..16 : aes.cipher[i] \in 0..255
    /\ aes.pc = "done" => aes.out = aes.block

\* the block of FIPS-197 under the 256-bit key 00 01 .. 1f
C21_Witness ==
    /\ aes.pc = "done" /\ Len(aes.key) = 32 /\ aes.key[2] = 1
    /\ aes.block[2] = 17 /\ aes.block[1] = 0
    /\ aes.cipher = <<142, 162, 183, 202, 81, 103, 69, 191,
                      234, 252, 73, 144, 75, 73, 96, 137>>

\* C22: a Connection.send call with zero bytes raises the error for empty
\* data (ValueError in the code), writes no byte to the stream and leaves
\* send_lock released, the caller idle again, so that any task may send next.
C22_EmptySendRejected ==
    [][\A s \in SendTasks :
         sent' = Append(sent, <<s, <<>>>>)
         => /\ wire' = wire
            /\ send_lock' = 0
            /\ snd'[s].err = "ValueError" /\ snd'[s].pc = "idle"
            /\ \A t \in SendTasks \ {s} : snd'[t] = snd[t]]_vars

\* an empty send by task 1, then a send by task 2 that arrived whole
C22_Witness ==
    /\ Len(sent) = 2 /\ sent[1] = <<1, <<>>>> /\ sent[2] = <<2, Rep(2, 1)>>
    /\ snd[1].err = "ValueError" /\ send_lock = 0
    /\ received = <<Rep(2, 1)>>

\* C23: every chunk Connection.send cuts from a message of n > 0 bytes starts
\* at a multiple of 32767, holds 1..32767 bytes of the message from there,
\* is the last one (F = 1) exactly when it ends the message and holds 32767
\* bytes otherwise, so that the last chunk is chunk number ceil(n / 32767);
\* the two header bytes written are (F << 15) | (length - 1), big-endian.
C23_ChunkSplitting ==
    [][\A s \in SendTasks :
         snd[s].pc = "header" /\ snd'[s].pc = "chunk"
         => LET n == BLen(snd[s].data)
                offset == snd[s].offset
                length == BLen(snd'[s].chunk)
                F == IF snd'[s].is_last THEN 1 ELSE 0
            IN /\ n > 0 /\ offset % ChunkCap = 0 /\ offset < n
               /\ length \in 1..ChunkCap
               /\ snd'[s].chunk = BTake(BDrop(snd[s].data, offset), length)
               /\ F = 1 <=> offset + length = n
               /\ F = 0 => length = ChunkCap
               /\ F = 1 => offset \div ChunkCap + 1
                             = (n + ChunkCap - 1) \div ChunkCap
               /\ wire' = BCat(wire,
                               BCat(Rep(F * 128 + (length - 1) \div 256, 1),
                                    Rep((length - 1) % 256, 1)))]_vars

\* the second chunk of the 40000-byte message: 7233 bytes with F = 1, after
\* a first chunk of 32767 bytes
C23_Witness ==
    /\ snd[2].pc = "chunk" /\ BLen(snd[2].data) = 40000
    /\ snd[2].offset = ChunkCap
    /\ BLen(snd[2].chunk) = 7233 /\ snd[2].is_last
    /\ BLen(wire) + BLen(buf) >= 2 + ChunkCap + 2

\* C24: however the stream splits the bytes among the socket reads, a header
\* that Connection.recv has decoded (while the stream is open) is the header
\* of a chunk some sender wrote: the data gathered so far are the chunks of
\* that message before it, the length is the length of its next chunk and
\* the flag says whether that chunk ends the message.
C24_ShortReadTolerance ==
    (rcv.pc = "payload" /\ ~rcv.eof_seen)
    => \E k \in 1..Len(sent) :
         LET d == sent[k][2]
             offset == BLen(rcv.data)
         IN /\ offset < BLen(d) /\ offset % ChunkCap = 0
            /\ rcv.data = BTake(d, offset)
            /\ rcv.length = Min(ChunkCap, BLen(d) - offset)
            /\ rcv.is_last = (offset + rcv.length = BLen(d))

\* C25: Key.decrypt returns the CBC-decrypted plaintext without its trailing
\* p bytes, p being its last byte, for every p in 0..255: all of it when
\* p = 0, nothing when p is the length of the plaintext or more.
C25_PaddingRemoval ==
    pad.pc = "done"
    => LET n == Len(pad.plain)
           p == pad.plain[n]
       IN pad.out = IF p >= n THEN <<>> ELSE SubSeq(pad.plain, 1, n - p)

\* C26: for n > 3 every witness a that is_prime(n, k) draws lies in
\* 2..n-2, and for a prime n is_prime(n, k) returns true whatever the draws.
C26_WitnessRange ==
    /\ \A i \in 1..Len(fermat.draws) :
         2 <= fermat.draws[i] /\ fermat.draws[i] <= fermat.n - 2
    /\ fermat.pc = "done" /\ IsPrimeNumber(fermat.n) => fermat.result

\* only the iv of the key object at ref may differ after the step
OnlyIvOf(ref) ==
    /\ \A r \in KeyRefs \ {ref} : keys'[r] = keys[r]
    /\ keys'[ref].key = keys[ref].key /\ keys'[ref].rounds = keys[ref].rounds

\* C27: a Session.send changes nothing but the iv of that session's
\* send_key and a Session.recv nothing but the iv of its recv_key, the key
\* object of the other direction staying as it was; the key objects handed
\* to the Session constructors (ConnectedClient.key on the server, conn_key
\* on the client) keep the negotiated (key, iv) in every step.
C27_KeyIndependence ==
    [][/\ \A c \in Conns :
            /\ keys[SrvKey(c)] # NoKey => keys'[SrvKey(c)] = keys[SrvKey(c)]
            /\ keys[CliKey(c)] # NoKey => keys'[CliKey(c)] = keys[CliKey(c)]
       /\ \A t \in Tasks :
            task[t].pc = "cbc" /\ task'[t].pc = "write"
            => /\ OnlyIvOf(task[t].dst.send_key)
               /\ keys'[task[t].dst.recv_key] = keys[task[t].dst.recv_key]
       /\ \A c \in Conns :
            /\ cli'[c].sent = cli[c].sent + 1
               => /\ OnlyIvOf(cli[c].session.send_key)
                  /\ keys'[cli[c].session.recv_key] = keys[cli[c].session.recv_key]
            /\ (task[HandleTask(c)].pc = "recv" /\ c2s[c] # <<>>
                /\ c2s'[c] = Tail(c2s[c]))
               => /\ OnlyIvOf(task[HandleTask(c)].session.recv_key)
                  /\ keys'[task[HandleTask(c)].session.send_key]
                       = keys[task[HandleTask(c)].session.send_key]
            /\ (cli[c].pc = "open" /\ cli[c].rd = "recv" /\ s2c[c] # <<>>
                /\ s2c'[c] = Tail(s2c[c]))
               => /\ OnlyIvOf(cli[c].session.recv_key)
                  /\ keys'[cli[c].session.send_key] = keys[cli[c].session.send_key]]_vars

\* a connection on which both ends have sent and received: on each end the
\* two direction keys have moved away from the negotiated iv and from each
\* other, and the constructor's key still holds it
C27_Witness ==
    \E c \in Conns :
        /\ keys[SrvKey(c)] = Key_generate(AesKeySize, c)
        /\ keys[CliKey(c)] = keys[SrvKey(c)]
        /\ keys[SrvSend(c)].iv # keys[SrvKey(c)].iv
        /\ keys[SrvRecv(c)].iv # keys[SrvKey(c)].iv
        /\ keys[SrvSend(c)].iv # keys[SrvRecv(c)].iv
        /\ keys[CliSend(c)].iv = keys[SrvRecv(c)].iv
        /\ keys[CliRecv(c)].iv # keys[CliKey(c)].iv
        /\ keys[CliRecv(c)].iv # keys[CliSend(c)].iv

\* C28: whatever happens to the handshake of one connection, the thread of
\* Server.listen goes on accepting: while the server is up it has neither
\* ended with an exception nor got stuck reading a closed stream, so that
\* the next client in the backlog is served.
C28_AcceptLoopSurvives ==
    up => task[ListenTask].pc \notin {"dead", "spin"}

====
